---- MODULE Spec2Model ----
(***************************************************************************)
(* Model of the SleeperAPI client (src/src/index.ts): a class of async     *)
(* accessors, each issuing one GET on an injected axios instance and       *)
(* either returning response.data or handing the caught failure to the     *)
(* private handleError, which always throws.                               *)
(*                                                                         *)
(* JavaScript values are records tagged by t: "undefined", "null",         *)
(* "boolean" (field b), "number" (field n), "NaN", "string" (field s) and  *)
(* "object" (one field per own property, each again a JavaScript value).   *)
(***************************************************************************)
EXTENDS Integers, Sequences, FiniteSets, TLC

VARIABLES
  calls,        \* one record per accessor invocation: idle, pending, resumable or settled
  getCalls,     \* number of get calls received by the client's transport
  client,       \* the fields of the SleeperAPI instance
  given,        \* the argument the constructor received
  created,      \* the configurations passed to axios.create so far
  methodsUsed,  \* the transport operations the client has invoked
  unsettled,    \* the invocations whose get promise has not settled yet
  avatar,       \* the latest call of the free function getAvatarUrl
  peer          \* a second SleeperAPI instance of the same program, if one was constructed

vars == <<calls, getCalls, client, given, created, methodsUsed, unsettled, avatar, peer>>

(* ---------------------------------------------------------------------- *)
(* Bounds                                                                  *)
(* ---------------------------------------------------------------------- *)

\* accessor invocations made on the client in one behaviour
MaxInvocations == 2

\* accessor invocations in the behaviours that follow the transport and the
\* accessor step by step
MaxClientInvocations == 2

\* accessor invocations in the behaviours of two clients
MaxPairInvocations == 2

\* accessor invocations in the behaviours that hand the accessors arbitrary arguments
MaxForwardInvocations == 1

\* length of the avatar identifiers handed to getAvatarUrl
MaxAvatarLen == 3

(* ---------------------------------------------------------------------- *)
(* JavaScript values                                                       *)
(* ---------------------------------------------------------------------- *)

Undefined == [t |-> "undefined"]
Null == [t |-> "null"]
NaN == [t |-> "NaN"]
Bool(b) == [t |-> "boolean", b |-> b]
Num(n) == [t |-> "number", n |-> n]
Str(s) == [t |-> "string", s |-> s]
EmptyObject == [t |-> "object"]

\* property read v.f on a value that is neither null nor undefined
Get(v, f) == IF v.t = "object" /\ f \in DOMAIN v THEN v[f] ELSE Undefined

\* JavaScript truthiness, as tested by if (error.response) / else if (error.request)
Truthy(v) ==
  CASE v.t \in {"undefined", "null", "NaN"} -> FALSE
    [] v.t = "boolean" -> v.b
    [] v.t = "number" -> v.n # 0
    [] v.t = "string" -> v.s # ""
    [] OTHER -> TRUE

\* string conversion performed by a template literal `${v}`
ToStr(v) ==
  CASE v.t = "string" -> v.s
    [] v.t = "number" -> ToString(v.n)
    [] v.t = "boolean" -> (IF v.b THEN "true" ELSE "false")
    [] v.t = "undefined" -> "undefined"
    [] v.t = "null" -> "null"
    [] v.t = "NaN" -> "NaN"
    [] OTHER -> "[object Object]"

\* faulty variant: the parameter is declared without its default
Default_Missing(v, d) == v

\* a parameter declared with a default: the default applies to undefined only
Default(v, d) == IF v = Undefined THEN d ELSE v

\* new Error(message)
NewError(message) == [t |-> "object", name |-> Str("Error"), message |-> Str(message)]

\* the TypeError the engine raises when a property of null or undefined is read
NewTypeError(message) == [t |-> "object", name |-> Str("TypeError"), message |-> Str(message)]

\* engine text for reading .data of an undefined response (bun, part_000:580)
DataReadMessage(response) == ToStr(response) \o " is not an object (evaluating 'response.data')"

\* engine text for reading .message of a null or undefined caught value
MessageReadMessage(error) == ToStr(error) \o " is not an object (evaluating 'error.message')"

(* ---------------------------------------------------------------------- *)
(* Error translator                                                        *)
(* ---------------------------------------------------------------------- *)

\* axios.isAxiosError(payload): an object whose isAxiosError property is true
isAxiosError(payload) == payload.t = "object" /\ Get(payload, "isAxiosError") = Bool(TRUE)

\* faulty variant: the case for 429 is missing and falls to the default
StatusError_No429(status) ==
  CASE status = Num(400) -> NewError("Bad Request: Your request is invalid.")
    [] status = Num(404) -> NewError("Not Found: The requested resource could not be found.")
    [] status = Num(500) -> NewError("Internal Server Error: Problem with the server.")
    [] status = Num(503) -> NewError("Service Unavailable: The service is temporarily offline.")
    [] OTHER -> NewError("Unexpected Error: " \o ToStr(status))

\* faulty variant: the default case leaves the status code out of the message
StatusError_NoCode(status) ==
  CASE status = Num(400) -> NewError("Bad Request: Your request is invalid.")
    [] status = Num(404) -> NewError("Not Found: The requested resource could not be found.")
    [] status = Num(429) -> NewError("Too Many Requests: You are being rate limited.")
    [] status = Num(500) -> NewError("Internal Server Error: Problem with the server.")
    [] status = Num(503) -> NewError("Service Unavailable: The service is temporarily offline.")
    [] OTHER -> NewError("Unexpected Error")

\* the switch over error.response.status
StatusError(status) ==
  CASE status = Num(400) -> NewError("Bad Request: Your request is invalid.")
    [] status = Num(404) -> NewError("Not Found: The requested resource could not be found.")
    [] status = Num(429) -> NewError("Too Many Requests: You are being rate limited.")
    [] status = Num(500) -> NewError("Internal Server Error: Problem with the server.")
    [] status = Num(503) -> NewError("Service Unavailable: The service is temporarily offline.")
    [] OTHER -> NewError("Unexpected Error: " \o ToStr(status))

\* faulty variant: the else-if on error.request is missing
handleError_NoRequestBranch(error) ==
  IF isAxiosError(error)
  THEN IF Truthy(Get(error, "response"))
       THEN StatusError(Get(Get(error, "response"), "status"))
       ELSE NewError("Axios Error: " \o ToStr(Get(error, "message")))
  ELSE IF error.t \in {"undefined", "null"}
       THEN NewTypeError(MessageReadMessage(error))
       ELSE NewError("Unexpected Error: " \o ToStr(Get(error, "message")))

\* faulty variant: the transport-error branch formats the error object, not its message
handleError_FormatsObject(error) ==
  IF isAxiosError(error)
  THEN IF Truthy(Get(error, "response"))
       THEN StatusError(Get(Get(error, "response"), "status"))
       ELSE IF Truthy(Get(error, "request"))
            THEN NewError("No response received from the server.")
            ELSE NewError("Axios Error: " \o ToStr(error))
  ELSE IF error.t \in {"undefined", "null"}
       THEN NewTypeError(MessageReadMessage(error))
       ELSE NewError("Unexpected Error: " \o ToStr(Get(error, "message")))

\* faulty variant: the non-transport branch is missing and such failures are formatted
\* by the transport-error branch
handleError_NoPlainBranch(error) ==
  IF error.t \in {"undefined", "null"}
  THEN NewTypeError(MessageReadMessage(error))
  ELSE IF Truthy(Get(error, "response"))
       THEN StatusError(Get(Get(error, "response"), "status"))
       ELSE IF Truthy(Get(error, "request"))
            THEN NewError("No response received from the server.")
            ELSE NewError("Axios Error: " \o ToStr(Get(error, "message")))

\* faulty variant: error.request is tested before error.response
handleError_RequestFirst(error) ==
  IF isAxiosError(error)
  THEN IF Truthy(Get(error, "request"))
       THEN NewError("No response received from the server.")
       ELSE IF Truthy(Get(error, "response"))
            THEN StatusError(Get(Get(error, "response"), "status"))
            ELSE NewError("Axios Error: " \o ToStr(Get(error, "message")))
  ELSE IF error.t \in {"undefined", "null"}
       THEN NewTypeError(MessageReadMessage(error))
       ELSE NewError("Unexpected Error: " \o ToStr(Get(error, "message")))

\* faulty variant: error.response is tested before axios.isAxiosError
handleError_ResponseFirst(error) ==
  IF error.t \in {"undefined", "null"}
  THEN NewTypeError(MessageReadMessage(error))
  ELSE IF Truthy(Get(error, "response"))
       THEN StatusError(Get(Get(error, "response"), "status"))
       ELSE IF isAxiosError(error)
            THEN IF Truthy(Get(error, "request"))
                 THEN NewError("No response received from the server.")
                 ELSE NewError("Axios Error: " \o ToStr(Get(error, "message")))
            ELSE NewError("Unexpected Error: " \o ToStr(Get(error, "message")))

\* faulty variant: a missing message is rendered as the empty string
handleError_EmptyPlaceholder(error) ==
  IF isAxiosError(error)
  THEN IF Truthy(Get(error, "response"))
       THEN StatusError(Get(Get(error, "response"), "status"))
       ELSE IF Truthy(Get(error, "request"))
            THEN NewError("No response received from the server.")
            ELSE NewError("Axios Error: " \o ToStr(Get(error, "message")))
  ELSE IF error.t \in {"undefined", "null"}
       THEN NewTypeError(MessageReadMessage(error))
       ELSE NewError("Unexpected Error: "
                       \o (IF Get(error, "message") = Undefined
                           THEN "" ELSE ToStr(Get(error, "message"))))

\* faulty variant: the transport-error branch uses the prefix of the last branch
handleError_OnePrefix(error) ==
  IF isAxiosError(error)
  THEN IF Truthy(Get(error, "response"))
       THEN StatusError(Get(Get(error, "response"), "status"))
       ELSE IF Truthy(Get(error, "request"))
            THEN NewError("No response received from the server.")
            ELSE NewError("Unexpected Error: " \o ToStr(Get(error, "message")))
  ELSE IF error.t \in {"undefined", "null"}
       THEN NewTypeError(MessageReadMessage(error))
       ELSE NewError("Unexpected Error: " \o ToStr(Get(error, "message")))

\* handleError(error): never returns; the value of the operator is what it throws
handleError(error) ==
  IF isAxiosError(error)
  THEN IF Truthy(Get(error, "response"))
       THEN StatusError(Get(Get(error, "response"), "status"))
       ELSE IF Truthy(Get(error, "request"))
            THEN NewError("No response received from the server.")
            ELSE NewError("Axios Error: " \o ToStr(Get(error, "message")))
  ELSE IF error.t \in {"undefined", "null"}
       THEN NewTypeError(MessageReadMessage(error))
       ELSE NewError("Unexpected Error: " \o ToStr(Get(error, "message")))

(* ---------------------------------------------------------------------- *)
(* Avatar URLs                                                             *)
(* ---------------------------------------------------------------------- *)

\* faulty variant: the thumbnail flag is ignored
getAvatarUrl_NoThumbs(avatar_id, thumbnailArg) ==
  Str("https://sleepercdn.com/avatars" \o "/" \o ToStr(avatar_id))

\* getAvatarUrl(avatar_id, thumbnail = false)
getAvatarUrl(avatar_id, thumbnailArg) ==
  LET thumbnail == Default(thumbnailArg, Bool(FALSE))
      base == "https://sleepercdn.com/avatars"
  IN IF Truthy(thumbnail)
     THEN Str(base \o "/thumbs/" \o ToStr(avatar_id))
     ELSE Str(base \o "/" \o ToStr(avatar_id))

(* ---------------------------------------------------------------------- *)
(* Construction                                                            *)
(* ---------------------------------------------------------------------- *)

BASE_URL == "https://api.sleeper.app/v1"

\* timeout of the default transport, in milliseconds
TIMEOUT == 10000

\* the configuration the constructor passes to axios.create
DefaultConfig == [t |-> "object", baseURL |-> Str(BASE_URL), timeout |-> Num(TIMEOUT)]

\* axios.create(config): a new instance carrying config as its defaults
axiosCreate(config) == [t |-> "object", name |-> Str("axios.create"), defaults |-> config]

\* faulty variant: the argument is ignored and a default transport is always created
constructor_AlwaysCreates(axiosInstance) ==
  [client |-> [axiosInstance |-> axiosCreate(DefaultConfig), BASE_URL |-> Str(BASE_URL)],
   created |-> <<DefaultConfig>>]

\* constructor(axiosInstance?): this.axiosInstance = axiosInstance || axios.create({...});
\* created lists the configurations handed to axios.create on the way
constructor(axiosInstance) ==
  IF Truthy(axiosInstance)
  THEN [client |-> [axiosInstance |-> axiosInstance, BASE_URL |-> Str(BASE_URL)],
        created |-> << >>]
  ELSE [client |-> [axiosInstance |-> axiosCreate(DefaultConfig), BASE_URL |-> Str(BASE_URL)],
        created |-> <<DefaultConfig>>]

(* ---------------------------------------------------------------------- *)
(* Accessors: the transport calls each one issues                          *)
(* ---------------------------------------------------------------------- *)

\* this.axiosInstance.get(path): the path is the only argument
GetPath(path) == [method |-> "get", path |-> path, config |-> Undefined]

\* this.axiosInstance.get(path, { params: {...} })
GetPathParams(path, params) ==
  [method |-> "get", path |-> path, config |-> [t |-> "object", params |-> params]]

getUserByUsername(username) == <<GetPath("/user/" \o ToStr(username))>>

getUserById(userId) == <<GetPath("/user/" \o ToStr(userId))>>

getLeaguesForUser(userId, sportArg, season) ==
  LET sport == Default(sportArg, Str("nfl"))
  IN <<GetPath("/user/" \o ToStr(userId) \o "/leagues/" \o ToStr(sport) \o "/" \o ToStr(season))>>

getLeague(leagueId) == <<GetPath("/league/" \o ToStr(leagueId))>>

\* faulty variant: the accessor issues its get twice
getRosters_Twice(leagueId) ==
  <<GetPath("/league/" \o ToStr(leagueId) \o "/rosters"),
    GetPath("/league/" \o ToStr(leagueId) \o "/rosters")>>

getRosters(leagueId) == <<GetPath("/league/" \o ToStr(leagueId) \o "/rosters")>>

getUsersInLeague(leagueId) == <<GetPath("/league/" \o ToStr(leagueId) \o "/users")>>

getMatchups(leagueId, week) ==
  <<GetPath("/league/" \o ToStr(leagueId) \o "/matchups/" \o ToStr(week))>>

getWinnersBracket(leagueId) == <<GetPath("/league/" \o ToStr(leagueId) \o "/winners_bracket")>>

\* faulty variant: the losers bracket is fetched from the winners bracket's path
getLosersBracket_Winners(leagueId) ==
  <<GetPath("/league/" \o ToStr(leagueId) \o "/winners_bracket")>>

getLosersBracket(leagueId) == <<GetPath("/league/" \o ToStr(leagueId) \o "/losers_bracket")>>

\* faulty variant: a round that is not a number is replaced by round 1
getTransactions_SanitizesRound(leagueId, round) ==
  <<GetPath("/league/" \o ToStr(leagueId) \o "/transactions/"
              \o ToStr(IF round = NaN THEN Num(1) ELSE round))>>

getTransactions(leagueId, round) ==
  <<GetPath("/league/" \o ToStr(leagueId) \o "/transactions/" \o ToStr(round))>>

\* faulty variant: the request is sent with post
getTradedPicks_Post(leagueId) ==
  <<[method |-> "post", path |-> "/league/" \o ToStr(leagueId) \o "/traded_picks",
     config |-> Undefined]>>

getTradedPicks(leagueId) == <<GetPath("/league/" \o ToStr(leagueId) \o "/traded_picks")>>

getState(sport) == <<GetPath("/state/" \o ToStr(sport))>>

getDraftsForUser(userId, sportArg, season) ==
  LET sport == Default(sportArg, Str("nfl"))
  IN <<GetPath("/user/" \o ToStr(userId) \o "/drafts/" \o ToStr(sport) \o "/" \o ToStr(season))>>

getDraftsForLeague(leagueId) == <<GetPath("/league/" \o ToStr(leagueId) \o "/drafts")>>

getDraft(draftId) == <<GetPath("/draft/" \o ToStr(draftId))>>

getPicksInDraft(draftId) == <<GetPath("/draft/" \o ToStr(draftId) \o "/picks")>>

getTradedPicksInDraft(draftId) == <<GetPath("/draft/" \o ToStr(draftId) \o "/traded_picks")>>

\* faulty variant: the sport is also sent as a query parameter
getAllPlayers_WithParams(sportArg) ==
  LET sport == Default(sportArg, Str("nfl"))
  IN <<GetPathParams("/players/" \o ToStr(sport), [t |-> "object", sport |-> sport])>>

getAllPlayers(sportArg) ==
  LET sport == Default(sportArg, Str("nfl"))
  IN <<GetPath("/players/" \o ToStr(sport))>>

\* faulty variant: the two defaults are exchanged
getTrendingPlayers_SwappedDefaults(sport, type, lookbackHoursArg, limitArg) ==
  LET lookbackHours == Default(lookbackHoursArg, Num(25))
      limit == Default(limitArg, Num(24))
  IN <<GetPathParams("/players/" \o ToStr(sport) \o "/trending/" \o ToStr(type),
                     [t |-> "object", lookback_hours |-> lookbackHours, limit |-> limit])>>

\* faulty variant: the defaults are applied with ||, so 0 is replaced as well
getTrendingPlayers_FalsyDefaults(sport, type, lookbackHoursArg, limitArg) ==
  LET lookbackHours == IF Truthy(lookbackHoursArg) THEN lookbackHoursArg ELSE Num(24)
      limit == IF Truthy(limitArg) THEN limitArg ELSE Num(25)
  IN <<GetPathParams("/players/" \o ToStr(sport) \o "/trending/" \o ToStr(type),
                     [t |-> "object", lookback_hours |-> lookbackHours, limit |-> limit])>>

getTrendingPlayers(sport, type, lookbackHoursArg, limitArg) ==
  LET lookbackHours == Default(lookbackHoursArg, Num(24))
      limit == Default(limitArg, Num(25))
  IN <<GetPathParams("/players/" \o ToStr(sport) \o "/trending/" \o ToStr(type),
                     [t |-> "object", lookback_hours |-> lookbackHours, limit |-> limit])>>

(* ---------------------------------------------------------------------- *)
(* How the transport's promise settles, and what the accessor does then    *)
(* ---------------------------------------------------------------------- *)

Resolves(v) == [kind |-> "resolves", value |-> v]
Rejects(v) == [kind |-> "rejects", value |-> v]

\* faulty variant: the accessor returns the response instead of its data
accessorBody_ReturnsResponse(result) ==
  IF result.kind = "resolves"
  THEN IF result.value.t \in {"undefined", "null"}
       THEN Rejects(handleError(NewTypeError(DataReadMessage(result.value))))
       ELSE Resolves(result.value)
  ELSE Rejects(handleError(result.value))

\* faulty variant: the catch block swallows the failure and the accessor returns undefined
accessorBody_Swallows(result) ==
  IF result.kind = "resolves"
  THEN IF result.value.t \in {"undefined", "null"}
       THEN Resolves(Undefined)
       ELSE Resolves(Get(result.value, "data"))
  ELSE Resolves(Undefined)

\* faulty variant: the body is read with optional chaining, so a missing
\* response yields undefined instead of raising
accessorBody_OptionalChaining(result) ==
  IF result.kind = "resolves"
  THEN IF result.value.t \in {"undefined", "null"}
       THEN Resolves(Undefined)
       ELSE Resolves(Get(result.value, "data"))
  ELSE Rejects(handleError(result.value))

\* faulty variant: a response without a body is treated as a failure
accessorBody_RequiresBody(result) ==
  IF result.kind = "resolves"
  THEN IF result.value.t \in {"undefined", "null"}
       THEN Rejects(handleError(NewTypeError(DataReadMessage(result.value))))
       ELSE IF Get(result.value, "data").t \in {"undefined", "null"}
            THEN Rejects(handleError(NewError("Empty response")))
            ELSE Resolves(Get(result.value, "data"))
  ELSE Rejects(handleError(result.value))

\* try { const response = await get(...); return response.data; }
\* catch (error) { this.handleError(error); }
accessorBody(result) ==
  IF result.kind = "resolves"
  THEN IF result.value.t \in {"undefined", "null"}
       THEN Rejects(handleError(NewTypeError(DataReadMessage(result.value))))
       ELSE Resolves(Get(result.value, "data"))
  ELSE Rejects(handleError(result.value))

(* ---------------------------------------------------------------------- *)
(* Inputs: accessor arguments and transport results                        *)
(* ---------------------------------------------------------------------- *)

Ids == {Str("289646328504385536")}
Sports == {Str("nfl")}
OptionalSports == {Undefined, Str("nba")}
Seasons == {Str("2018")}
Weeks == {Num(1), NaN}
TrendingTypes == {Str("add"), Str("drop")}
OptionalHours == {Undefined, Num(0)}
OptionalLimits == {Undefined, Num(0)}

\* decoded JSON bodies the remote service may send
Bodies == {[t |-> "object", user_id |-> Str("12345678")], EmptyObject}

\* AxiosResponse objects a resolved get delivers
Responses == {[t |-> "object", data |-> d, status |-> Num(200)] : d \in Bodies}

\* status codes of error responses: the five listed ones and two unlisted ones
Statuses == {400, 404, 429, 500, 503, 418, 401}

ErrorResponses == {[t |-> "object", status |-> Num(s)] : s \in Statuses}
Messages == {Str("Network Error"), Str("418")}
AxiosMessages == {Str("Network Error")}

\* the properties a rejected value may carry, each present or absent
FailureWith(flag, response, request, message) ==
  [t |-> "object", isAxiosError |-> flag, response |-> response,
   request |-> request, message |-> message]

\* failures flagged the way axios flags its own errors
AxiosFailures ==
  {FailureWith(Bool(TRUE), rsp, req, msg) :
     rsp \in ErrorResponses \cup {Undefined},
     req \in {EmptyObject, Undefined},
     msg \in AxiosMessages \cup {Undefined}}

\* anything else a promise can reject with: plain errors, bare objects, null, undefined
PlainFailures ==
  {FailureWith(Undefined, rsp, req, msg) :
     rsp \in {[t |-> "object", status |-> Num(404)], Undefined},
     req \in {EmptyObject, Undefined},
     msg \in Messages \cup {Undefined}}
  \cup {Null, Undefined}

Failures == AxiosFailures \cup PlainFailures

\* every way the promise returned by get can settle; a stub that was not set
\* up for the path resolves with undefined
TransportResults ==
  {Resolves(r) : r \in Responses \cup {Undefined}} \cup {Rejects(e) : e \in Failures}

(* ---------------------------------------------------------------------- *)
(* State machine: invocations on one client                                *)
(* ---------------------------------------------------------------------- *)

Slots == 1..MaxInvocations

Idle == [state |-> "idle"]

\* an invocation suspended at its await: the arguments it was given, the
\* transport it called and the path and config it passed to get
Pending(accessor, args, request, via) ==
  [state |-> "pending", accessor |-> accessor, args |-> args, via |-> via,
   path |-> request.path, config |-> request.config]

\* an invocation whose promise has settled with outcome, after get settled with result
Settled(result, outcome) == [state |-> "settled", result |-> result, outcome |-> outcome]

\* the transport the tests inject: axios.create() with its get stubbed
MockAxios == [t |-> "object", name |-> Str("mockAxios")]

\* no call of getAvatarUrl has been made
NoAvatar == [state |-> "idle"]

\* no second instance has been constructed
NoPeer == [state |-> "none"]

\* the state right after new SleeperAPI(axiosInstance)
NewClient(axiosInstance) ==
  /\ given = axiosInstance
  /\ client = constructor(axiosInstance).client
  /\ created = constructor(axiosInstance).created
  /\ calls = [i \in Slots |-> Idle]
  /\ getCalls = 0
  /\ methodsUsed = {}
  /\ unsettled = {}
  /\ avatar = NoAvatar
  /\ peer = NoPeer

Init == \E axiosInstance \in {MockAxios} : NewClient(axiosInstance)

\* the caller invokes an accessor: it issues its transport calls and suspends
Invoke(accessor, args, requests) ==
  \E i \in Slots :
    /\ calls[i] = Idle
    /\ \A j \in Slots : j < i => calls[j] # Idle
    /\ calls' = [calls EXCEPT
                   ![i] = Pending(accessor, args, requests[Len(requests)], client.axiosInstance)]
    /\ getCalls' = getCalls + Cardinality({k \in DOMAIN requests : requests[k].method = "get"})
    /\ methodsUsed' = methodsUsed \cup {requests[k].method : k \in DOMAIN requests}
    /\ unsettled' = unsettled \cup {i}
    /\ UNCHANGED <<client, given, created, avatar, peer>>

Call_getUserByUsername == \E a \in Ids : Invoke("getUserByUsername", <<a>>, getUserByUsername(a))
Call_getUserById == \E a \in Ids : Invoke("getUserById", <<a>>, getUserById(a))
Call_getLeaguesForUser ==
  \E a \in Ids, sp \in OptionalSports, se \in Seasons :
    Invoke("getLeaguesForUser", <<a, sp, se>>, getLeaguesForUser(a, sp, se))
Call_getLeague == \E a \in Ids : Invoke("getLeague", <<a>>, getLeague(a))
Call_getRosters == \E a \in Ids : Invoke("getRosters", <<a>>, getRosters(a))
Call_getUsersInLeague == \E a \in Ids : Invoke("getUsersInLeague", <<a>>, getUsersInLeague(a))
Call_getMatchups == \E a \in Ids, w \in Weeks : Invoke("getMatchups", <<a, w>>, getMatchups(a, w))
Call_getWinnersBracket == \E a \in Ids : Invoke("getWinnersBracket", <<a>>, getWinnersBracket(a))
Call_getLosersBracket == \E a \in Ids : Invoke("getLosersBracket", <<a>>, getLosersBracket(a))
Call_getTransactions == \E a \in Ids, r \in Weeks : Invoke("getTransactions", <<a, r>>, getTransactions(a, r))
Call_getTradedPicks == \E a \in Ids : Invoke("getTradedPicks", <<a>>, getTradedPicks(a))
Call_getState == \E sp \in Sports : Invoke("getState", <<sp>>, getState(sp))
Call_getDraftsForUser ==
  \E a \in Ids, sp \in OptionalSports, se \in Seasons :
    Invoke("getDraftsForUser", <<a, sp, se>>, getDraftsForUser(a, sp, se))
Call_getDraftsForLeague == \E a \in Ids : Invoke("getDraftsForLeague", <<a>>, getDraftsForLeague(a))
Call_getDraft == \E a \in Ids : Invoke("getDraft", <<a>>, getDraft(a))
Call_getPicksInDraft == \E a \in Ids : Invoke("getPicksInDraft", <<a>>, getPicksInDraft(a))
Call_getTradedPicksInDraft ==
  \E a \in Ids : Invoke("getTradedPicksInDraft", <<a>>, getTradedPicksInDraft(a))
Call_getAllPlayers == \E sp \in OptionalSports : Invoke("getAllPlayers", <<sp>>, getAllPlayers(sp))
Call_getTrendingPlayers ==
  \E sp \in Sports, ty \in TrendingTypes, h \in OptionalHours, l \in OptionalLimits :
    Invoke("getTrendingPlayers", <<sp, ty, h, l>>, getTrendingPlayers(sp, ty, h, l))

\* faulty variant: the response is kept in a field of the client, so an
\* invocation resuming after another one reads the other one's result
Settle_SharedResult ==
  \E i \in Slots, result \in TransportResults :
    /\ calls[i].state = "pending"
    /\ i \in unsettled
    /\ LET earlier == {j \in Slots : calls[j].state = "settled"}
           used == IF earlier = {} THEN result ELSE calls[CHOOSE j \in earlier : TRUE].result
       IN calls' = [calls EXCEPT ![i] = Settled(result, accessorBody(used))]
    /\ unsettled' = unsettled \ {i}
    /\ UNCHANGED <<getCalls, client, given, created, methodsUsed, avatar, peer>>

\* faulty variant: the client remembers a rate-limit failure and fails every
\* later invocation itself, without looking at its result
Settle_CircuitBreaker ==
  \E i \in Slots, result \in TransportResults :
    /\ calls[i].state = "pending"
    /\ i \in unsettled
    /\ LET limited == \E j \in Slots :
                        /\ calls[j].state = "settled"
                        /\ calls[j].outcome
                             = Rejects(NewError("Too Many Requests: You are being rate limited."))
       IN calls' = [calls EXCEPT
                      ![i] = Settled(result,
                                     IF limited
                                     THEN Rejects(NewError("Unexpected Error: circuit open"))
                                     ELSE accessorBody(result))]
    /\ unsettled' = unsettled \ {i}
    /\ UNCHANGED <<getCalls, client, given, created, methodsUsed, avatar, peer>>

\* the transport settles the get of a suspended invocation; the accessor resumes
Settle ==
  \E i \in Slots, result \in TransportResults :
    /\ calls[i].state = "pending"
    /\ i \in unsettled
    /\ calls' = [calls EXCEPT ![i] = Settled(result, accessorBody(result))]
    /\ unsettled' = unsettled \ {i}
    /\ UNCHANGED <<getCalls, client, given, created, methodsUsed, avatar, peer>>

Next ==
  \/ Call_getUserByUsername
  \/ Call_getUserById
  \/ Call_getLeaguesForUser
  \/ Call_getLeague
  \/ Call_getRosters
  \/ Call_getUsersInLeague
  \/ Call_getMatchups
  \/ Call_getWinnersBracket
  \/ Call_getLosersBracket
  \/ Call_getTransactions
  \/ Call_getTradedPicks
  \/ Call_getState
  \/ Call_getDraftsForUser
  \/ Call_getDraftsForLeague
  \/ Call_getDraft
  \/ Call_getPicksInDraft
  \/ Call_getTradedPicksInDraft
  \/ Call_getAllPlayers
  \/ Call_getTrendingPlayers
  \/ Settle

Spec == Init /\ [][Next]_vars

(* ---------------------------------------------------------------------- *)
(* Clients on any transport, with the transport and the accessor stepping  *)
(* separately                                                              *)
(* ---------------------------------------------------------------------- *)

\* a caller's own instance, as in the README's initialization example
CustomAxios == [t |-> "object", name |-> Str("customAxios")]

\* what a caller may pass to the constructor
ConstructorArgs == {Undefined, MockAxios, CustomAxios}

ClientInit == \E axiosInstance \in ConstructorArgs : NewClient(axiosInstance)

\* a transport that does not reject on error statuses resolves with them
LenientResponse == [t |-> "object", data |-> EmptyObject, status |-> Num(404)]

ClientResults ==
  {Resolves([t |-> "object", data |-> [t |-> "object", user_id |-> Str("12345678")],
             status |-> Num(200)]),
   Resolves(LenientResponse),
   Resolves(Undefined),
   Rejects(FailureWith(Bool(TRUE), [t |-> "object", status |-> Num(404)], Undefined, Undefined)),
   Rejects(FailureWith(Bool(TRUE), Undefined, EmptyObject, Undefined)),
   Rejects(FailureWith(Undefined, Undefined, Undefined, Str("Network Error"))),
   Rejects(Null)}

\* an invocation whose get promise has settled with result and whose
\* continuation after the await has not run yet
Resumable(result) == [state |-> "resumable", result |-> result]

\* the transport settles the promise of a get
TransportSettles ==
  \E i \in Slots, result \in ClientResults :
    /\ calls[i].state = "pending"
    /\ i \in unsettled
    \* the instance of axios.create keeps the default validateStatus, which
    \* rejects error statuses; an injected transport may resolve with them
    /\ calls[i].via = axiosCreate(DefaultConfig) => result # Resolves(LenientResponse)
    /\ calls' = [calls EXCEPT ![i] = Resumable(result)]
    /\ unsettled' = unsettled \ {i}
    /\ UNCHANGED <<getCalls, client, given, created, methodsUsed, avatar, peer>>

\* faulty variant: the accessor races its get against a timer of its own and
\* rejects when the timer fires first
Resume_OwnTimeout ==
  \E i \in Slots :
    /\ calls[i].state \in {"pending", "resumable"}
    /\ calls' = [calls EXCEPT
                   ![i] = IF calls[i].state = "resumable"
                          THEN Settled(calls[i].result, accessorBody(calls[i].result))
                          ELSE Settled(Rejects(Undefined), Rejects(NewError("timeout")))]
    /\ UNCHANGED <<getCalls, client, given, created, methodsUsed, unsettled, avatar, peer>>

\* faulty variant: the accessor stores the result of its get in a field of the client
Resume_RecordsLast ==
  \E i \in Slots :
    /\ calls[i].state = "resumable"
    /\ calls' = [calls EXCEPT ![i] = Settled(calls[i].result, accessorBody(calls[i].result))]
    /\ client' = [axiosInstance |-> client.axiosInstance, BASE_URL |-> client.BASE_URL,
                  lastResult |-> calls[i].result]
    /\ UNCHANGED <<getCalls, given, created, methodsUsed, unsettled, avatar, peer>>

\* the accessor runs on from its await: return response.data, or catch and handleError
Resume ==
  \E i \in Slots :
    /\ calls[i].state = "resumable"
    /\ calls' = [calls EXCEPT ![i] = Settled(calls[i].result, accessorBody(calls[i].result))]
    /\ UNCHANGED <<getCalls, client, given, created, methodsUsed, unsettled, avatar, peer>>

\* the caller still has an invocation to make
ClientMayInvoke == Cardinality({i \in Slots : calls[i] # Idle}) < MaxClientInvocations

ClientNext ==
  \/ ClientMayInvoke /\ Call_getUserByUsername
  \/ ClientMayInvoke /\ Call_getUserById
  \/ ClientMayInvoke /\ Call_getLeaguesForUser
  \/ ClientMayInvoke /\ Call_getLeague
  \/ ClientMayInvoke /\ Call_getRosters
  \/ ClientMayInvoke /\ Call_getUsersInLeague
  \/ ClientMayInvoke /\ Call_getMatchups
  \/ ClientMayInvoke /\ Call_getWinnersBracket
  \/ ClientMayInvoke /\ Call_getLosersBracket
  \/ ClientMayInvoke /\ Call_getTransactions
  \/ ClientMayInvoke /\ Call_getTradedPicks
  \/ ClientMayInvoke /\ Call_getState
  \/ ClientMayInvoke /\ Call_getDraftsForUser
  \/ ClientMayInvoke /\ Call_getDraftsForLeague
  \/ ClientMayInvoke /\ Call_getDraft
  \/ ClientMayInvoke /\ Call_getPicksInDraft
  \/ ClientMayInvoke /\ Call_getTradedPicksInDraft
  \/ ClientMayInvoke /\ Call_getAllPlayers
  \/ ClientMayInvoke /\ Call_getTrendingPlayers
  \/ TransportSettles
  \/ Resume

\* the continuation of a settled await is always run by the event loop; the
\* transport is under no obligation to settle
ClientSpec == ClientInit /\ [][ClientNext]_vars /\ WF_vars(Resume)

(* ---------------------------------------------------------------------- *)
(* One client handed arbitrary arguments, on a transport that may deliver  *)
(* responses without a body                                                *)
(* ---------------------------------------------------------------------- *)

\* identifiers as a caller may pass them: well-formed, empty, not numeric
\* (part_000:359) and containing a path separator
WildIds == {Str("289646328504385536"), Str(""), Str("invalidLeagueId"), Str("1/2")}

\* weeks and rounds: a number, zero, and the NaN of part_000:575
WildWeeks == {Num(1), Num(0), NaN}

WildSports == {Str("nfl"), Str("")}
WildOptionalSports == {Undefined, Str("")}

\* lookbackHours and limit: omitted, zero, or another number
GivenHours == {Undefined, Num(0), Num(48)}
GivenLimits == {Undefined, Num(0), Num(10)}

Forward_getUserByUsername ==
  \E a \in WildIds : Invoke("getUserByUsername", <<a>>, getUserByUsername(a))
Forward_getUserById ==
  \E a \in WildIds : Invoke("getUserById", <<a>>, getUserById(a))
Forward_getLeaguesForUser ==
  \E a \in WildIds, sp \in WildOptionalSports, se \in Seasons :
    Invoke("getLeaguesForUser", <<a, sp, se>>, getLeaguesForUser(a, sp, se))
Forward_getLeague ==
  \E a \in WildIds : Invoke("getLeague", <<a>>, getLeague(a))
Forward_getRosters ==
  \E a \in WildIds : Invoke("getRosters", <<a>>, getRosters(a))
Forward_getUsersInLeague ==
  \E a \in WildIds : Invoke("getUsersInLeague", <<a>>, getUsersInLeague(a))
Forward_getMatchups ==
  \E a \in WildIds, w \in WildWeeks : Invoke("getMatchups", <<a, w>>, getMatchups(a, w))
Forward_getWinnersBracket ==
  \E a \in WildIds : Invoke("getWinnersBracket", <<a>>, getWinnersBracket(a))
Forward_getLosersBracket ==
  \E a \in WildIds : Invoke("getLosersBracket", <<a>>, getLosersBracket(a))
Forward_getTransactions ==
  \E a \in WildIds, w \in WildWeeks : Invoke("getTransactions", <<a, w>>, getTransactions(a, w))
Forward_getTradedPicks ==
  \E a \in WildIds : Invoke("getTradedPicks", <<a>>, getTradedPicks(a))
Forward_getState ==
  \E sp \in WildSports : Invoke("getState", <<sp>>, getState(sp))
Forward_getDraftsForUser ==
  \E a \in WildIds, sp \in WildOptionalSports, se \in Seasons :
    Invoke("getDraftsForUser", <<a, sp, se>>, getDraftsForUser(a, sp, se))
Forward_getDraftsForLeague ==
  \E a \in WildIds : Invoke("getDraftsForLeague", <<a>>, getDraftsForLeague(a))
Forward_getDraft ==
  \E a \in WildIds : Invoke("getDraft", <<a>>, getDraft(a))
Forward_getPicksInDraft ==
  \E a \in WildIds : Invoke("getPicksInDraft", <<a>>, getPicksInDraft(a))
Forward_getTradedPicksInDraft ==
  \E a \in WildIds : Invoke("getTradedPicksInDraft", <<a>>, getTradedPicksInDraft(a))
Forward_getAllPlayers ==
  \E sp \in WildOptionalSports : Invoke("getAllPlayers", <<sp>>, getAllPlayers(sp))
Forward_getTrendingPlayers ==
  \E sp \in Sports, ty \in TrendingTypes, h \in GivenHours, l \in GivenLimits :
    Invoke("getTrendingPlayers", <<sp, ty, h, l>>, getTrendingPlayers(sp, ty, h, l))

\* responses whose body is present, undefined, null or missing altogether
BodilessResponses ==
  {[t |-> "object", data |-> d, status |-> Num(200)] :
     d \in {[t |-> "object", user_id |-> Str("12345678")], Undefined, Null}}
  \cup {[t |-> "object", status |-> Num(200)]}

ForwardResults ==
  {Resolves(r) : r \in BodilessResponses \cup {Undefined, Null}}
  \cup {Rejects(FailureWith(Bool(TRUE), [t |-> "object", status |-> Num(400)],
                            Undefined, Undefined))}

\* the transport settles the get of a suspended invocation; the accessor resumes
ForwardSettle ==
  \E i \in Slots, result \in ForwardResults :
    /\ calls[i].state = "pending"
    /\ i \in unsettled
    /\ calls' = [calls EXCEPT ![i] = Settled(result, accessorBody(result))]
    /\ unsettled' = unsettled \ {i}
    /\ UNCHANGED <<getCalls, client, given, created, methodsUsed, avatar, peer>>

\* the caller still has an invocation to make
ForwardMayInvoke == Cardinality({i \in Slots : calls[i] # Idle}) < MaxForwardInvocations

ForwardNext ==
  \/ ForwardMayInvoke /\ Forward_getUserByUsername
  \/ ForwardMayInvoke /\ Forward_getUserById
  \/ ForwardMayInvoke /\ Forward_getLeaguesForUser
  \/ ForwardMayInvoke /\ Forward_getLeague
  \/ ForwardMayInvoke /\ Forward_getRosters
  \/ ForwardMayInvoke /\ Forward_getUsersInLeague
  \/ ForwardMayInvoke /\ Forward_getMatchups
  \/ ForwardMayInvoke /\ Forward_getWinnersBracket
  \/ ForwardMayInvoke /\ Forward_getLosersBracket
  \/ ForwardMayInvoke /\ Forward_getTransactions
  \/ ForwardMayInvoke /\ Forward_getTradedPicks
  \/ ForwardMayInvoke /\ Forward_getState
  \/ ForwardMayInvoke /\ Forward_getDraftsForUser
  \/ ForwardMayInvoke /\ Forward_getDraftsForLeague
  \/ ForwardMayInvoke /\ Forward_getDraft
  \/ ForwardMayInvoke /\ Forward_getPicksInDraft
  \/ ForwardMayInvoke /\ Forward_getTradedPicksInDraft
  \/ ForwardMayInvoke /\ Forward_getAllPlayers
  \/ ForwardMayInvoke /\ Forward_getTrendingPlayers
  \/ ForwardSettle

ForwardSpec == Init /\ [][ForwardNext]_vars

(* ---------------------------------------------------------------------- *)
(* Two clients of one program, each constructed with its own transport     *)
(* ---------------------------------------------------------------------- *)

\* the two instances a caller invokes accessors on
Receivers == {"client", "peer"}

\* a second instance after new SleeperAPI(axiosInstance): its fields, the
\* get calls its transport has received and the invocations made on it
NewPeer(axiosInstance) ==
  [state |-> "constructed", given |-> axiosInstance,
   client |-> constructor(axiosInstance).client, getCalls |-> 0, invoked |-> {}]

\* both constructors have run, each with a transport of its own
PairInit ==
  \E a \in ConstructorArgs, b \in ConstructorArgs :
    /\ a # b
    /\ given = a
    /\ client = constructor(a).client
    /\ peer = NewPeer(b)
    /\ created = constructor(a).created \o constructor(b).created
    /\ calls = [i \in Slots |-> Idle]
    /\ getCalls = 0
    /\ methodsUsed = {}
    /\ unsettled = {}
    /\ avatar = NoAvatar

\* faulty variant: the transport is kept in a static field of the class, which
\* the constructor that ran last has overwritten
InvokeOn_StaticTransport(c, accessor, args, requests) ==
  \E i \in Slots :
    /\ calls[i] = Idle
    /\ \A j \in Slots : j < i => calls[j] # Idle
    /\ LET via == peer.client.axiosInstance
           gets == Cardinality({k \in DOMAIN requests : requests[k].method = "get"})
       IN
        /\ calls' = [calls EXCEPT
                       ![i] = Pending(accessor, args, requests[Len(requests)], via)]
        /\ getCalls' = IF via = client.axiosInstance THEN getCalls + gets ELSE getCalls
        /\ peer' = [peer EXCEPT
                      !.getCalls = IF via = peer.client.axiosInstance THEN @ + gets ELSE @,
                      !.invoked = IF c = "peer" THEN @ \cup {i} ELSE @]
    /\ methodsUsed' = methodsUsed \cup {requests[k].method : k \in DOMAIN requests}
    /\ unsettled' = unsettled \cup {i}
    /\ UNCHANGED <<client, given, created, avatar>>

\* the caller invokes an accessor on instance c: it issues its transport calls
\* on this.axiosInstance and suspends
InvokeOn(c, accessor, args, requests) ==
  \E i \in Slots :
    /\ calls[i] = Idle
    /\ \A j \in Slots : j < i => calls[j] # Idle
    /\ LET this == IF c = "peer" THEN peer.client ELSE client
           via == this.axiosInstance
           gets == Cardinality({k \in DOMAIN requests : requests[k].method = "get"})
       IN
        /\ calls' = [calls EXCEPT
                       ![i] = Pending(accessor, args, requests[Len(requests)], via)]
        /\ getCalls' = IF via = client.axiosInstance THEN getCalls + gets ELSE getCalls
        /\ peer' = [peer EXCEPT
                      !.getCalls = IF via = peer.client.axiosInstance THEN @ + gets ELSE @,
                      !.invoked = IF c = "peer" THEN @ \cup {i} ELSE @]
    /\ methodsUsed' = methodsUsed \cup {requests[k].method : k \in DOMAIN requests}
    /\ unsettled' = unsettled \cup {i}
    /\ UNCHANGED <<client, given, created, avatar>>

Pair_getUserByUsername ==
  \E c \in Receivers, a \in Ids :
    InvokeOn(c, "getUserByUsername", <<a>>, getUserByUsername(a))
Pair_getUserById ==
  \E c \in Receivers, a \in Ids :
    InvokeOn(c, "getUserById", <<a>>, getUserById(a))
Pair_getLeaguesForUser ==
  \E c \in Receivers, a \in Ids, se \in Seasons :
    InvokeOn(c, "getLeaguesForUser", <<a, Undefined, se>>, getLeaguesForUser(a, Undefined, se))
Pair_getLeague ==
  \E c \in Receivers, a \in Ids :
    InvokeOn(c, "getLeague", <<a>>, getLeague(a))
Pair_getRosters ==
  \E c \in Receivers, a \in Ids :
    InvokeOn(c, "getRosters", <<a>>, getRosters(a))
Pair_getUsersInLeague ==
  \E c \in Receivers, a \in Ids :
    InvokeOn(c, "getUsersInLeague", <<a>>, getUsersInLeague(a))
Pair_getMatchups ==
  \E c \in Receivers, a \in Ids :
    InvokeOn(c, "getMatchups", <<a, Num(1)>>, getMatchups(a, Num(1)))
Pair_getWinnersBracket ==
  \E c \in Receivers, a \in Ids :
    InvokeOn(c, "getWinnersBracket", <<a>>, getWinnersBracket(a))
Pair_getLosersBracket ==
  \E c \in Receivers, a \in Ids :
    InvokeOn(c, "getLosersBracket", <<a>>, getLosersBracket(a))
Pair_getTransactions ==
  \E c \in Receivers, a \in Ids :
    InvokeOn(c, "getTransactions", <<a, Num(1)>>, getTransactions(a, Num(1)))
Pair_getTradedPicks ==
  \E c \in Receivers, a \in Ids :
    InvokeOn(c, "getTradedPicks", <<a>>, getTradedPicks(a))
Pair_getState ==
  \E c \in Receivers, sp \in Sports :
    InvokeOn(c, "getState", <<sp>>, getState(sp))
Pair_getDraftsForUser ==
  \E c \in Receivers, a \in Ids, se \in Seasons :
    InvokeOn(c, "getDraftsForUser", <<a, Undefined, se>>, getDraftsForUser(a, Undefined, se))
Pair_getDraftsForLeague ==
  \E c \in Receivers, a \in Ids :
    InvokeOn(c, "getDraftsForLeague", <<a>>, getDraftsForLeague(a))
Pair_getDraft ==
  \E c \in Receivers, a \in Ids :
    InvokeOn(c, "getDraft", <<a>>, getDraft(a))
Pair_getPicksInDraft ==
  \E c \in Receivers, a \in Ids :
    InvokeOn(c, "getPicksInDraft", <<a>>, getPicksInDraft(a))
Pair_getTradedPicksInDraft ==
  \E c \in Receivers, a \in Ids :
    InvokeOn(c, "getTradedPicksInDraft", <<a>>, getTradedPicksInDraft(a))
Pair_getAllPlayers ==
  \E c \in Receivers, sp \in Sports :
    InvokeOn(c, "getAllPlayers", <<sp>>, getAllPlayers(sp))
Pair_getTrendingPlayers ==
  \E c \in Receivers, sp \in Sports :
    InvokeOn(c, "getTrendingPlayers", <<sp, Str("add"), Undefined, Undefined>>, getTrendingPlayers(sp, Str("add"), Undefined, Undefined))

PairResults ==
  {Resolves([t |-> "object", data |-> [t |-> "object", user_id |-> Str("12345678")],
             status |-> Num(200)]),
   Rejects(FailureWith(Bool(TRUE), [t |-> "object", status |-> Num(404)], Undefined, Undefined))}

\* a transport settles the get of a suspended invocation; the accessor resumes
PairSettle ==
  \E i \in Slots, result \in PairResults :
    /\ calls[i].state = "pending"
    /\ i \in unsettled
    /\ calls' = [calls EXCEPT ![i] = Settled(result, accessorBody(result))]
    /\ unsettled' = unsettled \ {i}
    /\ UNCHANGED <<getCalls, client, given, created, methodsUsed, avatar, peer>>

\* the caller still has an invocation to make
PairMayInvoke == Cardinality({i \in Slots : calls[i] # Idle}) < MaxPairInvocations

PairNext ==
  \/ PairMayInvoke /\ Pair_getUserByUsername
  \/ PairMayInvoke /\ Pair_getUserById
  \/ PairMayInvoke /\ Pair_getLeaguesForUser
  \/ PairMayInvoke /\ Pair_getLeague
  \/ PairMayInvoke /\ Pair_getRosters
  \/ PairMayInvoke /\ Pair_getUsersInLeague
  \/ PairMayInvoke /\ Pair_getMatchups
  \/ PairMayInvoke /\ Pair_getWinnersBracket
  \/ PairMayInvoke /\ Pair_getLosersBracket
  \/ PairMayInvoke /\ Pair_getTransactions
  \/ PairMayInvoke /\ Pair_getTradedPicks
  \/ PairMayInvoke /\ Pair_getState
  \/ PairMayInvoke /\ Pair_getDraftsForUser
  \/ PairMayInvoke /\ Pair_getDraftsForLeague
  \/ PairMayInvoke /\ Pair_getDraft
  \/ PairMayInvoke /\ Pair_getPicksInDraft
  \/ PairMayInvoke /\ Pair_getTradedPicksInDraft
  \/ PairMayInvoke /\ Pair_getAllPlayers
  \/ PairMayInvoke /\ Pair_getTrendingPlayers
  \/ PairSettle

PairSpec == PairInit /\ [][PairNext]_vars

(* ---------------------------------------------------------------------- *)
(* The free function getAvatarUrl, applied to drawn inputs                 *)
(* ---------------------------------------------------------------------- *)

AvatarChars == {"a", "3", "/"}

RECURSIVE Words(_)
\* the strings of at most n characters
Words(n) == IF n = 0 THEN {""} ELSE Words(n - 1) \cup {w \o c : w \in Words(n - 1), c \in AvatarChars}

AvatarIds == {Str(w) : w \in Words(MaxAvatarLen)}

\* the flag as a caller may pass it: omitted, false or true
ThumbnailArgs == {Undefined, Bool(FALSE), Bool(TRUE)}

\* a call of getAvatarUrl and the value it returned
Call_getAvatarUrl ==
  \E avatar_id \in AvatarIds, thumbnail \in ThumbnailArgs :
    /\ avatar' = [state |-> "returned", avatar_id |-> avatar_id, thumbnail |-> thumbnail,
                  url |-> getAvatarUrl(avatar_id, thumbnail)]
    /\ UNCHANGED <<calls, getCalls, client, given, created, methodsUsed, unsettled, peer>>

AvatarNext == Call_getAvatarUrl

AvatarSpec == Init /\ [][AvatarNext]_vars

(* ---------------------------------------------------------------------- *)
(* Vocabulary of the properties                                            *)
(* ---------------------------------------------------------------------- *)

SettledSlots == {i \in Slots : calls[i].state = "settled"}
Invoked == {i \in Slots : calls[i] # Idle}

\* the value the transport rejected with in slot i
RejectedWith(i) == calls[i].result.value

\* slot i settled after its get rejected with a failure flagged as a transport failure
TransportFailure(i) ==
  /\ calls[i].state = "settled"
  /\ calls[i].result.kind = "rejects"
  /\ RejectedWith(i).t = "object"
  /\ RejectedWith(i).isAxiosError = Bool(TRUE)

HasResponse(e) == e.response # Undefined
HasRequest(e) == e.request # Undefined
HasMessage(e) == e.message # Undefined

\* the accessor's promise in slot i rejected with an Error carrying message m
RejectsWithMessage(i, m) ==
  calls[i].outcome = Rejects([t |-> "object", name |-> Str("Error"), message |-> Str(m)])

ListedStatuses == {400, 404, 429, 500, 503}

ListedMessage(s) ==
  CASE s = 400 -> "Bad Request: Your request is invalid."
    [] s = 404 -> "Not Found: The requested resource could not be found."
    [] s = 429 -> "Too Many Requests: You are being rate limited."
    [] s = 500 -> "Internal Server Error: Problem with the server."
    [] s = 503 -> "Service Unavailable: The service is temporarily offline."

HasPrefix(p, m) == Len(m) >= Len(p) /\ SubSeq(m, 1, Len(p)) = p

(* ---------------------------------------------------------------------- *)
(* Properties                                                              *)
(* ---------------------------------------------------------------------- *)

\* C1: a transport failure carrying a response whose status is 400, 404, 429,
\* 500 or 503 makes the accessor reject with exactly the message of that status.
C1_ListedStatusMessage ==
  \A i \in Slots :
    (TransportFailure(i) /\ HasResponse(RejectedWith(i)))
      => \A s \in ListedStatuses :
           RejectedWith(i).response.status = Num(s) => RejectsWithMessage(i, ListedMessage(s))

C1_Witness ==
  \E i \in Slots :
    /\ TransportFailure(i)
    /\ HasResponse(RejectedWith(i))
    /\ RejectedWith(i).response.status = Num(429)
    /\ RejectsWithMessage(i, "Too Many Requests: You are being rate limited.")

\* C2: a transport failure carrying a response whose status is outside the
\* five listed ones makes the accessor reject with "Unexpected Error: <status>".
C2_UnlistedStatusMessage ==
  \A i \in Slots :
    (TransportFailure(i) /\ HasResponse(RejectedWith(i)))
      => \A s \in Statuses \ ListedStatuses :
           RejectedWith(i).response.status = Num(s)
             => RejectsWithMessage(i, "Unexpected Error: " \o ToString(s))

C2_Witness ==
  \E i \in Slots :
    /\ TransportFailure(i)
    /\ HasResponse(RejectedWith(i))
    /\ RejectedWith(i).response.status = Num(418)
    /\ RejectsWithMessage(i, "Unexpected Error: 418")

\* C3: a transport failure with no response but with a request makes the
\* accessor reject with exactly "No response received from the server."
C3_NoResponseMessage ==
  \A i \in Slots :
    (TransportFailure(i) /\ ~HasResponse(RejectedWith(i)) /\ HasRequest(RejectedWith(i)))
      => RejectsWithMessage(i, "No response received from the server.")

C3_Witness ==
  \E i \in Slots :
    /\ TransportFailure(i)
    /\ ~HasResponse(RejectedWith(i))
    /\ HasRequest(RejectedWith(i))
    /\ ~HasMessage(RejectedWith(i))
    /\ RejectsWithMessage(i, "No response received from the server.")

\* C4: a transport failure with neither response nor request and with message m
\* makes the accessor reject with "Axios Error: " followed by m.
C4_AxiosErrorMessage ==
  \A i \in Slots :
    (/\ TransportFailure(i)
     /\ ~HasResponse(RejectedWith(i))
     /\ ~HasRequest(RejectedWith(i))
     /\ HasMessage(RejectedWith(i)))
      => RejectsWithMessage(i, "Axios Error: " \o RejectedWith(i).message.s)

C4_Witness ==
  \E i \in Slots :
    /\ TransportFailure(i)
    /\ ~HasResponse(RejectedWith(i))
    /\ ~HasRequest(RejectedWith(i))
    /\ RejectedWith(i).message = Str("Network Error")
    /\ RejectsWithMessage(i, "Axios Error: Network Error")

\* slot i settled after its get rejected with an object that is not flagged as
\* a transport failure
PlainFailure(i) ==
  /\ calls[i].state = "settled"
  /\ calls[i].result.kind = "rejects"
  /\ RejectedWith(i).t = "object"
  /\ RejectedWith(i).isAxiosError # Bool(TRUE)

\* C5: a failure that is not a transport failure and has message m, whether
\* the transport rejected with it or the accessor raised it while reading the
\* body, makes the accessor reject with "Unexpected Error: " followed by m.
C5_PlainErrorMessage ==
  \A i \in Slots :
    /\ (PlainFailure(i) /\ HasMessage(RejectedWith(i)))
         => RejectsWithMessage(i, "Unexpected Error: " \o RejectedWith(i).message.s)
    /\ (calls[i].state = "settled" /\ calls[i].result = [kind |-> "resolves", value |-> Undefined])
         => RejectsWithMessage(i,
              "Unexpected Error: undefined is not an object (evaluating 'response.data')")

C5_Witness ==
  \E i \in Slots :
    /\ PlainFailure(i)
    /\ ~HasResponse(RejectedWith(i))
    /\ ~HasRequest(RejectedWith(i))
    /\ RejectedWith(i).message = Str("Network Error")
    /\ RejectsWithMessage(i, "Unexpected Error: Network Error")

StatusMessage(s) ==
  IF s \in ListedStatuses THEN ListedMessage(s) ELSE "Unexpected Error: " \o ToString(s)

\* C6: for a transport failure the rules apply in priority order: a response
\* decides the message by its status whatever else is carried; without a
\* response a request gives the no-response message whatever message is
\* carried; "Axios Error: " is only produced when both are absent.
C6_PriorityOrder ==
  \A i \in Slots :
    TransportFailure(i) =>
      LET e == RejectedWith(i)
      IN /\ HasResponse(e) => RejectsWithMessage(i, StatusMessage(e.response.status.n))
         /\ (~HasResponse(e) /\ HasRequest(e))
              => RejectsWithMessage(i, "No response received from the server.")
         /\ HasPrefix("Axios Error: ", calls[i].outcome.value.message.s)
              => (~HasResponse(e) /\ ~HasRequest(e))

C6_Witness ==
  \E i \in Slots :
    /\ TransportFailure(i)
    /\ HasResponse(RejectedWith(i))
    /\ HasRequest(RejectedWith(i))
    /\ HasMessage(RejectedWith(i))
    /\ RejectedWith(i).response.status = Num(500)
    /\ RejectsWithMessage(i, "Internal Server Error: Problem with the server.")

\* the messages of the error taxonomy
Normalized(m) ==
  \/ m \in {ListedMessage(s) : s \in ListedStatuses}
  \/ m = "No response received from the server."
  \/ HasPrefix("Unexpected Error: ", m)
  \/ HasPrefix("Axios Error: ", m)

\* C7: whatever the transport rejects with or the accessor body raises, null
\* and undefined included, handleError throws an Error carrying one of the
\* normalized messages and nothing else.
C7_AlwaysNormalized ==
  \A i \in SettledSlots :
    calls[i].outcome.kind = "rejects"
      => /\ calls[i].outcome.value.name = Str("Error")
         /\ Normalized(calls[i].outcome.value.message.s)

\* C8: when get resolves with a response, the accessor resolves with that
\* response's body, unchanged.
C8_BodyVerbatim ==
  \A i \in SettledSlots :
    (calls[i].result.kind = "resolves" /\ calls[i].result.value.t = "object")
      => calls[i].outcome = [kind |-> "resolves", value |-> calls[i].result.value.data]

C8_Witness ==
  \E i \in SettledSlots :
    /\ calls[i].result.kind = "resolves"
    /\ calls[i].result.value.t = "object"
    /\ calls[i].result.value.data = [t |-> "object", user_id |-> Str("12345678")]
    /\ calls[i].outcome.kind = "resolves"
    /\ calls[i].outcome.value = [t |-> "object", user_id |-> Str("12345678")]

\* C9: whenever the transport call rejects, the accessor rejects; it never
\* resolves with a value after a transport failure.
C9_FailureRejects ==
  \A i \in SettledSlots :
    calls[i].result.kind = "rejects" => calls[i].outcome.kind = "rejects"

C9_Witness ==
  \E i \in SettledSlots :
    /\ calls[i].result = [kind |-> "rejects", value |-> Null]
    /\ calls[i].outcome.kind = "rejects"

\* C10: the number of transport get calls equals the number of accessor
\* invocations, whatever mix of pending, succeeded and failed invocations.
C10_OneGetPerInvocation == getCalls = Cardinality(Invoked)

C10_Witness ==
  /\ getCalls = 2
  /\ calls[1].state = "settled"
  /\ calls[1].result.kind = "rejects"
  /\ calls[2].state = "pending"
  /\ calls[2].accessor = "getRosters"

PendingSlots == {i \in Slots : calls[i].state = "pending"}

\* the sport a path carries when the caller passed sp
SportUsed(sp) == IF sp = Undefined THEN "nfl" ELSE ToStr(sp)

\* the endpoint map: the path each accessor requests for arguments a
TemplatePath(accessor, a) ==
  CASE accessor = "getUserByUsername" -> "/user/" \o ToStr(a[1])
    [] accessor = "getUserById" -> "/user/" \o ToStr(a[1])
    [] accessor = "getLeaguesForUser" ->
         "/user/" \o ToStr(a[1]) \o "/leagues/" \o SportUsed(a[2]) \o "/" \o ToStr(a[3])
    [] accessor = "getLeague" -> "/league/" \o ToStr(a[1])
    [] accessor = "getRosters" -> "/league/" \o ToStr(a[1]) \o "/rosters"
    [] accessor = "getUsersInLeague" -> "/league/" \o ToStr(a[1]) \o "/users"
    [] accessor = "getMatchups" -> "/league/" \o ToStr(a[1]) \o "/matchups/" \o ToStr(a[2])
    [] accessor = "getWinnersBracket" -> "/league/" \o ToStr(a[1]) \o "/winners_bracket"
    [] accessor = "getLosersBracket" -> "/league/" \o ToStr(a[1]) \o "/losers_bracket"
    [] accessor = "getTransactions" ->
         "/league/" \o ToStr(a[1]) \o "/transactions/" \o ToStr(a[2])
    [] accessor = "getTradedPicks" -> "/league/" \o ToStr(a[1]) \o "/traded_picks"
    [] accessor = "getState" -> "/state/" \o ToStr(a[1])
    [] accessor = "getDraftsForUser" ->
         "/user/" \o ToStr(a[1]) \o "/drafts/" \o SportUsed(a[2]) \o "/" \o ToStr(a[3])
    [] accessor = "getDraftsForLeague" -> "/league/" \o ToStr(a[1]) \o "/drafts"
    [] accessor = "getDraft" -> "/draft/" \o ToStr(a[1])
    [] accessor = "getPicksInDraft" -> "/draft/" \o ToStr(a[1]) \o "/picks"
    [] accessor = "getTradedPicksInDraft" -> "/draft/" \o ToStr(a[1]) \o "/traded_picks"
    [] accessor = "getAllPlayers" -> "/players/" \o SportUsed(a[1])
    [] accessor = "getTrendingPlayers" ->
         "/players/" \o ToStr(a[1]) \o "/trending/" \o ToStr(a[2])

\* the endpoint map with getTrendingPlayers listed under /players/{sport}
ClaimedPath(accessor, a) ==
  IF accessor = "getTrendingPlayers"
  THEN "/players/" \o ToStr(a[1])
  ELSE TemplatePath(accessor, a)

\* C11 as stated: every accessor requests the path of its fixed template with
\* its arguments inserted, where getTrendingPlayers requests /players/{sport}.
C11_AsStated ==
  \A i \in PendingSlots : calls[i].path = ClaimedPath(calls[i].accessor, calls[i].args)

\* C11, amended: every accessor requests the path of its fixed template with
\* its arguments inserted at the template's positions; getUserByUsername and
\* getUserById request the same path for the same argument, and
\* getTrendingPlayers requests /players/{sport}/trending/{type}.
C11_TemplatePaths ==
  \A i \in PendingSlots : calls[i].path = TemplatePath(calls[i].accessor, calls[i].args)

C11_Witness ==
  \E i \in PendingSlots :
    /\ calls[i].accessor = "getLosersBracket"
    /\ calls[i].args = <<Str("289646328504385536")>>
    /\ calls[i].path = "/league/289646328504385536/losers_bracket"

\* C12: an omitted (undefined) sport is requested as "nfl" by getAllPlayers,
\* getLeaguesForUser and getDraftsForUser; a sport that is given is used unchanged.
C12_SportDefault ==
  \A i \in PendingSlots :
    LET a == calls[i].args
    IN /\ calls[i].accessor = "getAllPlayers"
            => calls[i].path = (IF a[1] = Undefined THEN "/players/nfl" ELSE "/players/" \o a[1].s)
       /\ calls[i].accessor = "getLeaguesForUser"
            => calls[i].path =
                 "/user/" \o a[1].s \o "/leagues/"
                   \o (IF a[2] = Undefined THEN "nfl" ELSE a[2].s) \o "/" \o a[3].s
       /\ calls[i].accessor = "getDraftsForUser"
            => calls[i].path =
                 "/user/" \o a[1].s \o "/drafts/"
                   \o (IF a[2] = Undefined THEN "nfl" ELSE a[2].s) \o "/" \o a[3].s

C12_Witness ==
  /\ calls[1].state = "pending"
  /\ calls[1].accessor = "getLeaguesForUser"
  /\ calls[1].args = <<Str("289646328504385536"), Undefined, Str("2018")>>
  /\ calls[1].path = "/user/289646328504385536/leagues/nfl/2018"
  /\ calls[2].state = "pending"
  /\ calls[2].accessor = "getAllPlayers"
  /\ calls[2].args = <<Str("nba")>>
  /\ calls[2].path = "/players/nba"

\* C13: getTrendingPlayers called with only sport and type issues its get to
\* /players/{sport}/trending/{type} with the query parameters exactly
\* {lookback_hours: 24, limit: 25}.
C13_TrendingDefaults ==
  \A i \in PendingSlots :
    (/\ calls[i].accessor = "getTrendingPlayers"
     /\ calls[i].args[3] = Undefined
     /\ calls[i].args[4] = Undefined)
      => /\ calls[i].path =
              "/players/" \o calls[i].args[1].s \o "/trending/" \o calls[i].args[2].s
         /\ calls[i].config =
              [t |-> "object",
               params |-> [t |-> "object", lookback_hours |-> Num(24), limit |-> Num(25)]]

C13_Witness ==
  \E i \in PendingSlots :
    /\ calls[i].accessor = "getTrendingPlayers"
    /\ calls[i].args = <<Str("nfl"), Str("add"), Undefined, Undefined>>
    /\ calls[i].path = "/players/nfl/trending/add"
    /\ calls[i].config.params.lookback_hours = Num(24)
    /\ calls[i].config.params.limit = Num(25)

\* C14: getAvatarUrl returns the CDN base followed by "/" and the id when
\* thumbnail is false or omitted, and by "/thumbs/" and the id when it is true,
\* the id unchanged, and issues no transport call.
C14_AvatarUrl ==
  avatar.state = "returned" =>
    /\ avatar.url =
         (IF avatar.thumbnail = Bool(TRUE)
          THEN Str("https://sleepercdn.com/avatars/thumbs/" \o avatar.avatar_id.s)
          ELSE Str("https://sleepercdn.com/avatars/" \o avatar.avatar_id.s))
    /\ getCalls = 0
    /\ methodsUsed = {}

C14_Witness ==
  /\ avatar.state = "returned"
  /\ avatar.avatar_id = Str("a3/")
  /\ avatar.thumbnail = Bool(TRUE)
  /\ avatar.url = Str("https://sleepercdn.com/avatars/thumbs/a3/")

\* C15: a client constructed with a transport issues every request on that
\* transport and creates no default one; a client constructed without one
\* issues every request on a transport created with base URL
\* https://api.sleeper.app/v1 and a timeout of 10000 ms.
C15_TransportChoice ==
  LET config == [t |-> "object", baseURL |-> Str("https://api.sleeper.app/v1"),
                 timeout |-> Num(10000)]
      default == [t |-> "object", name |-> Str("axios.create"), defaults |-> config]
  IN /\ given # Undefined
          => /\ created = << >>
             /\ client.axiosInstance = given
             /\ \A i \in PendingSlots : calls[i].via = given
     /\ given = Undefined
          => /\ created = <<config>>
             /\ client.axiosInstance = default
             /\ \A i \in PendingSlots : calls[i].via = default

C15_Witness ==
  /\ given = Undefined
  /\ created # << >>
  /\ calls[1].state = "pending"
  /\ calls[1].via.defaults.timeout = Num(10000)
  /\ calls[2].state = "pending"
  /\ calls[2].via.defaults.baseURL = Str("https://api.sleeper.app/v1")

\* C16: the only operation the client ever invokes on its transport is get,
\* on the accessors' paths and on their failure paths alike.
C16_OnlyGet == methodsUsed \subseteq {"get"}

C16_Witness ==
  /\ methodsUsed = {"get"}
  /\ calls[1].state = "settled"
  /\ calls[1].outcome.kind = "rejects"
  /\ calls[2].state = "pending"
  /\ calls[2].accessor = "getTradedPicks"

\* C17: with invocations in flight together and their transport calls settling
\* in any order, each invocation's outcome is the one its own transport result
\* determines: the body of its own response, or the translation of its own failure.
C17_OwnResultDecides ==
  \A i \in SettledSlots :
    LET r == calls[i].result
    IN /\ (r.kind = "resolves" /\ r.value.t = "object")
            => calls[i].outcome = [kind |-> "resolves", value |-> r.value.data]
       /\ (r.kind = "resolves" /\ r.value.t # "object")
            => /\ calls[i].outcome.kind = "rejects"
               /\ HasPrefix("Unexpected Error: ", calls[i].outcome.value.message.s)
       /\ r.kind = "rejects"
            => calls[i].outcome = [kind |-> "rejects", value |-> handleError(r.value)]

\* the second invocation settled first, with a failure, and the first one
\* then resolved with its own body
C17_Witness ==
  /\ calls[2].state = "settled"
  /\ calls[2].result.kind = "rejects"
  /\ calls[2].outcome.kind = "rejects"
  /\ calls[1].state = "settled"
  /\ calls[1].result.kind = "resolves"
  /\ calls[1].result.value.t = "object"
  /\ calls[1].outcome = [kind |-> "resolves", value |-> [t |-> "object", user_id |-> Str("12345678")]]

\* C18: an invocation never settles while its transport call is unsettled, it
\* stays suspended for as long as the transport call is unsettled, and once the
\* transport call has settled the invocation settles.
C18_SettlesWithTransport ==
  /\ [](\A i \in Slots : calls[i].state = "settled" => i \notin unsettled)
  /\ [](\A i \in unsettled : calls[i].state = "pending")
  /\ \A i \in Slots : (calls[i].state = "resumable") ~> (calls[i].state = "settled")

C18_Witness ==
  /\ calls[1].state = "pending"
  /\ 1 \in unsettled
  /\ calls[2].state = "settled"
  /\ 2 \notin unsettled

\* status of the response the transport delivered to slot i, resolved or
\* carried by a transport failure; 0 when it delivered none
DeliveredStatus(i) ==
  LET r == calls[i].result
  IN IF r.kind = "resolves" /\ r.value.t = "object" THEN r.value.status.n
     ELSE IF r.kind = "rejects" /\ r.value.t = "object" /\ r.value.isAxiosError = Bool(TRUE)
             /\ r.value.response # Undefined
          THEN r.value.response.status.n
          ELSE 0

\* C19: an accessor resolves only when the response's status is 2xx,
\* and a delivered response with a status outside 2xx makes it reject with the
\* normalized message of that status.
C19_AsStated ==
  \A i \in SettledSlots :
    /\ calls[i].outcome.kind = "resolves" => DeliveredStatus(i) \in 200..299
    /\ (DeliveredStatus(i) # 0 /\ DeliveredStatus(i) \notin 200..299)
         => RejectsWithMessage(i, StatusMessage(DeliveredStatus(i)))

\* C20: when the get settles without a response object, as a stub does for a
\* path it was not set up for (such as .../transactions/NaN, built from a
\* round that is not a number), the accessor rejects with "Unexpected Error: "
\* followed by the message of the error raised while reading the body, and
\* one transport call was made per invocation.
C20_MissingResponse ==
  /\ \A i \in PendingSlots :
       (calls[i].accessor = "getTransactions" /\ calls[i].args[2] = NaN)
         => calls[i].path = "/league/" \o calls[i].args[1].s \o "/transactions/NaN"
  /\ \A i \in SettledSlots :
       calls[i].result = [kind |-> "resolves", value |-> Undefined]
         => /\ calls[i].outcome.kind = "rejects"
            /\ calls[i].outcome.value.name = Str("Error")
            /\ calls[i].outcome.value.message.s
                 = "Unexpected Error: " \o "undefined is not an object (evaluating 'response.data')"
            /\ getCalls = Cardinality(Invoked)

C20_Witness ==
  /\ calls[1].state = "settled"
  /\ calls[1].result = [kind |-> "resolves", value |-> Undefined]
  /\ calls[1].outcome.kind = "rejects"
  /\ calls[2] = Idle
  /\ getCalls = 1

\* slot i settled after its get rejected with an object
ObjectFailure(i) ==
  /\ calls[i].state = "settled"
  /\ calls[i].result.kind = "rejects"
  /\ RejectedWith(i).t = "object"

\* C21: whenever the failure object carries a response with a status code,
\* whatever else it carries and whether or not it is flagged as a transport
\* failure, the accessor rejects with the message of that status.
C21_AsStated ==
  \A i \in Slots :
    (ObjectFailure(i) /\ HasResponse(RejectedWith(i)))
      => RejectsWithMessage(i, StatusMessage(RejectedWith(i).response.status.n))

\* C21, amended: a response with a status code decides the message, whatever
\* else the failure carries, when the failure is flagged as a transport
\* failure; a failure that is not flagged is translated to "Unexpected
\* Error: " followed by its message even when it carries a response.
C21_FlaggedResponseFirst ==
  \A i \in Slots :
    (ObjectFailure(i) /\ HasResponse(RejectedWith(i)))
      => IF RejectedWith(i).isAxiosError = Bool(TRUE)
         THEN RejectsWithMessage(i, StatusMessage(RejectedWith(i).response.status.n))
         ELSE RejectsWithMessage(i, "Unexpected Error: "
                                      \o (IF HasMessage(RejectedWith(i))
                                          THEN RejectedWith(i).message.s ELSE "undefined"))

C21_Witness ==
  \E i \in Slots :
    /\ ObjectFailure(i)
    /\ RejectedWith(i).isAxiosError = Undefined
    /\ RejectedWith(i).response = [t |-> "object", status |-> Num(404)]
    /\ RejectedWith(i).request = EmptyObject
    /\ RejectedWith(i).message = Str("Network Error")
    /\ RejectsWithMessage(i, "Unexpected Error: Network Error")

\* C24: a failure object that is not a transport failure and exposes no
\* message makes the accessor reject with exactly "Unexpected Error: undefined".
C24_UndefinedPlaceholder ==
  \A i \in Slots :
    (PlainFailure(i) /\ ~HasMessage(RejectedWith(i)))
      => /\ calls[i].outcome.kind = "rejects"
         /\ calls[i].outcome.value = NewError("Unexpected Error: undefined")

C24_Witness ==
  \E i \in Slots :
    /\ PlainFailure(i)
    /\ RejectedWith(i) = FailureWith(Undefined, Undefined, Undefined, Undefined)
    /\ calls[i].outcome.kind = "rejects"
    /\ calls[i].outcome.value.message = Str("Unexpected Error: undefined")

\* C25: no step of any invocation, successful or failed, changes the client:
\* its transport reference and base URL stay what the constructor set, and it
\* gains no field recording a response or an error.
C25_ClientUnchanged ==
  [][/\ client' = client
     /\ DOMAIN client' = {"axiosInstance", "BASE_URL"}
     /\ given' = given
     /\ created' = created]_vars

C25_Witness ==
  /\ calls[1].state = "settled"
  /\ calls[1].outcome.kind = "rejects"
  /\ calls[2].state = "settled"
  /\ calls[2].outcome.kind = "resolves"
  /\ client = [axiosInstance |-> CustomAxios, BASE_URL |-> Str("https://api.sleeper.app/v1")]

\* C27: an invocation's outcome is the one a fresh client gives for its
\* transport result, whatever was invoked, succeeded or failed before: equal
\* results give equal outcomes, and after failures every invocation still
\* reaches the transport.
C27_NoHistory ==
  /\ \A i \in SettledSlots : calls[i].outcome = accessorBody(calls[i].result)
  /\ \A i, j \in SettledSlots :
       calls[i].result = calls[j].result => calls[i].outcome = calls[j].outcome
  /\ getCalls = Cardinality(Invoked)

\* two rate-limit failures in a row, translated alike
C27_Witness ==
  /\ calls[1].state = "settled"
  /\ calls[2].state = "settled"
  /\ TransportFailure(1)
  /\ RejectedWith(1).response = [t |-> "object", status |-> Num(429)]
  /\ calls[2].result = calls[1].result
  /\ RejectsWithMessage(1, "Too Many Requests: You are being rate limited.")
  /\ RejectsWithMessage(2, "Too Many Requests: You are being rate limited.")
  /\ getCalls = 2

\* slot i settled with a rejection
RejectedSlots == {i \in SettledSlots : calls[i].outcome.kind = "rejects"}

\* the value the catch block of slot i handed to handleError
Caught(i) ==
  IF calls[i].result.kind = "rejects"
  THEN calls[i].result.value
  ELSE NewTypeError(DataReadMessage(calls[i].result.value))

\* the kind of the error taxonomy whose branch of handleError a caught value takes
Kind(e) ==
  IF isAxiosError(e)
  THEN IF Truthy(Get(e, "response"))
       THEN CASE Get(Get(e, "response"), "status") = Num(400) -> "InvalidRequest"
              [] Get(Get(e, "response"), "status") = Num(404) -> "NotFound"
              [] Get(Get(e, "response"), "status") = Num(429) -> "RateLimited"
              [] Get(Get(e, "response"), "status") = Num(500) -> "ServerError"
              [] Get(Get(e, "response"), "status") = Num(503) -> "ServiceUnavailable"
              [] OTHER -> "UnexpectedStatus"
       ELSE IF Truthy(Get(e, "request")) THEN "NoResponse" ELSE "TransportError"
  ELSE "UnknownError"

\* C28: two failures that the translator classifies into different kinds
\* never produce the same message.
C28_AsStated ==
  \A i, j \in RejectedSlots :
    Kind(Caught(i)) # Kind(Caught(j))
      => calls[i].outcome.value.message # calls[j].outcome.value.message

\* C28, amended: two failures of different kinds produce the same message
\* only when one is an unlisted status code and the other a non-transport
\* error, whose messages share the prefix "Unexpected Error: "; every other
\* pair of kinds gives different messages.
C28_KindsApartButUnexpected ==
  \A i, j \in RejectedSlots :
    (/\ Kind(Caught(i)) # Kind(Caught(j))
     /\ calls[i].outcome.value.message = calls[j].outcome.value.message)
      => /\ {Kind(Caught(i)), Kind(Caught(j))} = {"UnexpectedStatus", "UnknownError"}
         /\ HasPrefix("Unexpected Error: ", calls[i].outcome.value.message.s)

C28_Witness ==
  /\ TransportFailure(1)
  /\ RejectedWith(1).response = [t |-> "object", status |-> Num(418)]
  /\ PlainFailure(2)
  /\ RejectedWith(2).message = Str("418")
  /\ RejectsWithMessage(1, "Unexpected Error: 418")
  /\ RejectsWithMessage(2, "Unexpected Error: 418")

\* C22: whatever the argument values (an empty string, an identifier that is
\* not numeric, NaN or 0 as week or round, a value containing "/"), the
\* accessor issues its get with the values inserted into the path in their
\* plain string form; no invocation ends without its transport call.
C22_NoValidation ==
  /\ getCalls = Cardinality(Invoked)
  /\ \A i \in SettledSlots : i \notin unsettled
  /\ \A i \in PendingSlots :
       LET a == calls[i].args
       IN /\ calls[i].path = TemplatePath(calls[i].accessor, a)
          /\ (calls[i].accessor = "getTransactions" /\ a = <<Str(""), NaN>>)
               => calls[i].path = "/league//transactions/NaN"
          /\ (calls[i].accessor = "getUsersInLeague" /\ a = <<Str("invalidLeagueId")>>)
               => calls[i].path = "/league/invalidLeagueId/users"
          /\ (calls[i].accessor = "getMatchups" /\ a = <<Str("1/2"), Num(0)>>)
               => calls[i].path = "/league/1/2/matchups/0"
          /\ (calls[i].accessor = "getUserByUsername" /\ a = <<Str("")>>)
               => calls[i].path = "/user/"
          /\ (calls[i].accessor = "getDraftsForUser" /\ a = <<Str("1/2"), Str(""), Str("2018")>>)
               => calls[i].path = "/user/1/2/drafts//2018"

C22_Witness ==
  /\ calls[1].state = "pending"
  /\ calls[1].accessor = "getTransactions"
  /\ calls[1].args = <<Str("1/2"), NaN>>
  /\ calls[1].path = "/league/1/2/transactions/NaN"
  /\ getCalls = 1
  /\ 1 \in unsettled

\* C23: getTrendingPlayers passes a given lookbackHours and a given limit on
\* unchanged, 0 included, as lookback_hours and limit; 24 and 25 stand in
\* only for an argument that is undefined, each argument on its own.
C23_GivenParamsForwarded ==
  \A i \in PendingSlots :
    calls[i].accessor = "getTrendingPlayers"
      => /\ calls[i].config.params.lookback_hours
              = (IF calls[i].args[3] = Undefined THEN Num(24) ELSE calls[i].args[3])
         /\ calls[i].config.params.limit
              = (IF calls[i].args[4] = Undefined THEN Num(25) ELSE calls[i].args[4])
         /\ DOMAIN calls[i].config.params = {"t", "lookback_hours", "limit"}

C23_Witness ==
  \E i \in PendingSlots :
    /\ calls[i].accessor = "getTrendingPlayers"
    /\ calls[i].args = <<Str("nfl"), Str("drop"), Num(0), Undefined>>
    /\ calls[i].config.params.lookback_hours = Num(0)
    /\ calls[i].config.params.limit = Num(25)

\* C29: getTrendingPlayers is the only accessor that passes a configuration
\* with query parameters to get; every other accessor passes the path alone,
\* whatever its arguments.
C29_OnlyTrendingHasParams ==
  \A i \in PendingSlots :
    IF calls[i].accessor = "getTrendingPlayers"
    THEN calls[i].config.t = "object" /\ DOMAIN calls[i].config = {"t", "params"}
    ELSE calls[i].config = Undefined

C29_Witness ==
  \E i \in PendingSlots :
    /\ calls[i].accessor = "getAllPlayers"
    /\ calls[i].args = <<Str("")>>
    /\ calls[i].path = "/players/"
    /\ calls[i].config = Undefined

\* the body read from response r: undefined when r has no data property
BodyOf(r) == IF "data" \in DOMAIN r THEN r.data ELSE Undefined

\* C30: when get resolves with a response object whose body is undefined,
\* null or missing, the accessor resolves with that absent value; on the
\* success path it rejects only when get resolved with undefined or null.
C30_AbsentBodyResolves ==
  \A i \in SettledSlots :
    calls[i].result.kind = "resolves"
      => IF calls[i].result.value.t = "object"
         THEN calls[i].outcome = [kind |-> "resolves", value |-> BodyOf(calls[i].result.value)]
         ELSE /\ calls[i].result.value.t \in {"undefined", "null"}
              /\ calls[i].outcome.kind = "rejects"

C30_Witness ==
  \E i \in SettledSlots :
    /\ calls[i].result.kind = "resolves"
    /\ calls[i].result.value = [t |-> "object", data |-> Null, status |-> Num(200)]
    /\ calls[i].outcome = [kind |-> "resolves", value |-> Null]

\* C26: with two clients constructed with different transports, in any
\* interleaving of invocations on both, every invocation issues its call on
\* the transport of the client it was made on, each transport has received
\* exactly the calls of its own client, and both clients stay as constructed.
C26_ClientsIsolated ==
  /\ client.axiosInstance # peer.client.axiosInstance
  /\ \A i \in PendingSlots :
       calls[i].via = (IF i \in peer.invoked THEN peer.client.axiosInstance
                       ELSE client.axiosInstance)
  /\ getCalls = Cardinality(Invoked \ peer.invoked)
  /\ peer.getCalls = Cardinality(peer.invoked)
  /\ client = constructor(given).client
  /\ peer.client = constructor(peer.given).client

\* an invocation on the peer is pending on the peer's default transport
\* after an invocation on the client has failed on the client's own
C26_Witness ==
  /\ given = CustomAxios
  /\ peer.given = Undefined
  /\ calls[1].state = "settled"
  /\ calls[1].outcome.kind = "rejects"
  /\ 1 \notin peer.invoked
  /\ calls[2].state = "pending"
  /\ 2 \in peer.invoked
  /\ calls[2].via = axiosCreate(DefaultConfig)
  /\ getCalls = 1
  /\ peer.getCalls = 1

====
